---- MODULE Spec2Model ----
(***************************************************************************)
(* Model of the Legion package recipe                                      *)
(* (var/spack/repos/builtin/packages/legion/package.py): the variant and   *)
(* conflict declarations of class Legion and the method cmake_args, which  *)
(* turns one concrete spec into the ordered list of CMake options.         *)
(*                                                                         *)
(* One behaviour is one translation of one spec.  The declared conflicts   *)
(* are checked first (by the framework, before cmake_args is called); then *)
(* cmake_args runs one top-level statement per step.  A second translation *)
(* of the same spec with another build_type runs in lock step, so that the *)
(* two returned lists can be compared.                                     *)
(***************************************************************************)
EXTENDS Integers, Sequences, FiniteSets, TLC

VARIABLES spec, bare_name_in_spec, pc, options, cmake_cxx_flags, environ,
          env_writes, result, message, returned,
          twin_build_type, twin_options, twin_cxx_flags, twin_returned

vars == <<spec, bare_name_in_spec, pc, options, cmake_cxx_flags, environ,
          env_writes, result, message, returned,
          twin_build_type, twin_options, twin_cxx_flags, twin_returned>>

(***************************************************************************)
(* Bounds of the explored input space.                                     *)
(***************************************************************************)
\* a spec of Init differs from the declared defaults in at most this many variants
MaxNonDefault == 2
\* max_fields values -MaxFieldsBelow .. MaxFieldsAbove are tried on their own
MaxFieldsBelow == 3
MaxFieldsAbove == 70
\* max_dims values 0 .. MaxDimsAbove
MaxDimsAbove == 4

(***************************************************************************)
(* Text helpers: Python's '%d' formatting, int() parsing and str.upper.     *)
(***************************************************************************)
Digit == <<"0", "1", "2", "3", "4", "5", "6", "7", "8", "9">>

RECURSIVE FormatNat(_)
FormatNat(n) ==
    IF n < 10 THEN Digit[n + 1]
    ELSE FormatNat(n \div 10) \o Digit[(n % 10) + 1]

\* '%d' % n
FormatD(n) == IF n < 0 THEN "-" \o FormatNat(0 - n) ELSE FormatNat(n)

DigitValue(c) == CHOOSE d \in 0..9 : Digit[d + 1] = c

RECURSIVE ParseNat(_, _)
ParseNat(s, acc) ==
    IF Len(s) = 0 THEN acc
    ELSE ParseNat(SubSeq(s, 2, Len(s)), 10 * acc + DigitValue(SubSeq(s, 1, 1)))

\* int(value) for a value written as an optionally signed decimal numeral
int(value) ==
    IF SubSeq(value, 1, 1) = "-" THEN 0 - ParseNat(SubSeq(value, 2, Len(value)), 0)
    ELSE IF SubSeq(value, 1, 1) = "+" THEN ParseNat(SubSeq(value, 2, Len(value)), 0)
    ELSE ParseNat(value, 0)

\* str.upper on the declared output levels
Upper(level) ==
    CASE level = "spew"    -> "SPEW"
      [] level = "debug"   -> "DEBUG"
      [] level = "info"    -> "INFO"
      [] level = "print"   -> "PRINT"
      [] level = "warning" -> "WARNING"
      [] level = "error"   -> "ERROR"
      [] level = "fatal"   -> "FATAL"
      [] level = "none"    -> "NONE"

(***************************************************************************)
(* Integer helpers: Python's & and << on non-negative integers.            *)
(***************************************************************************)
RECURSIVE BitAnd(_, _)
BitAnd(a, b) ==
    IF a = 0 \/ b = 0 THEN 0
    ELSE (a % 2) * (b % 2) + 2 * BitAnd(a \div 2, b \div 2)

RECURSIVE ShiftLeft(_, _)
ShiftLeft(a, k) == IF k = 0 THEN a ELSE ShiftLeft(2 * a, k - 1)

(***************************************************************************)
(* The variant declarations: value domains and defaults.                   *)
(***************************************************************************)
Networks == {"gasnet", "mpi", "none"}
Conduits == {"aries", "ibv", "udp", "mpi", "ucx", "none"}
gasnet_conduits == <<"aries", "ibv", "udp", "mpi", "ucx">>
OutputLevels == {"spew", "debug", "info", "print", "warning", "error", "fatal", "none"}
cuda_arch_list == <<"60", "70", "75", "80">>
\* gasnet_root accepts 'none' or any existing directory; two directories stand for them
GasnetRoots == {"none", "/opt/gasnet", "/usr"}
\* build_type is the variant every CMake package has; cmake_args only tests for 'Debug'
BuildTypes == {"Debug", "Release", "RelWithDebInfo", "MinSizeRel"}
\* spec['kokkos'].kokkos_cxx: the compiler the Kokkos dependency exposes
KokkosCxx == {"/usr/bin/g++", "/opt/kokkos/bin/nvcc_wrapper"}

BoolVariants == {"gasnet_debug", "shared", "bounds_checks", "privilege_checks",
                 "enable_tls", "spy", "cuda", "cuda_hijack",
                 "cuda_unsupported_compiler", "fortran", "hdf5", "hwloc",
                 "kokkos", "bindings", "libdl", "openmp", "papi", "python",
                 "zlib", "redop_complex", "native"}

DefaultSpec ==
    [network |-> "none", gasnet_root |-> "none", conduit |-> "none",
     gasnet_debug |-> FALSE, shared |-> FALSE, bounds_checks |-> FALSE,
     privilege_checks |-> FALSE, enable_tls |-> FALSE,
     output_level |-> "warning", spy |-> FALSE, cuda |-> FALSE,
     cuda_hijack |-> FALSE, cuda_arch |-> "70",
     cuda_unsupported_compiler |-> FALSE, fortran |-> FALSE, hdf5 |-> FALSE,
     hwloc |-> FALSE, kokkos |-> FALSE, bindings |-> FALSE, libdl |-> TRUE,
     openmp |-> FALSE, papi |-> FALSE, python |-> FALSE, zlib |-> TRUE,
     redop_complex |-> FALSE, max_dims |-> "3", max_fields |-> "512",
     native |-> FALSE, build_type |-> "RelWithDebInfo"]

(***************************************************************************)
(* The conflicts declared in the class body, in declaration order.  A      *)
(* conflicts(c, when=w) directive is violated by a spec that satisfies     *)
(* both w and c.                                                           *)
(***************************************************************************)
\* conflicts('gasnet_root', when="network=mpi") names the variant without a
\* value, as does the test 'output_level' in spec of cmake_args.  Whether a
\* spec satisfies such a bare name is decided by the framework's matcher,
\* outside this file: bare_name_in_spec is that answer, fixed per behaviour.
ConflictGasnetRoot(s, bare) == s.network = "mpi" /\ bare

\* variant: the conduit=none rule tests the wrong network
ConflictConduitNoneWrongNetwork(s) == s.network = "mpi" /\ s.conduit = "none"

ConflictConduitNone(s) == s.network = "gasnet" /\ s.conduit = "none"

ConflictConduit(s, c, network) == s.network = network /\ s.conduit = c

ConflictGasnetDebug(s, network) == s.network = network /\ s.gasnet_debug

\* variant: the hijack rule is declared with when='+cuda'
ConflictCudaHijackWhenCuda(s) == s.cuda /\ s.cuda_hijack

ConflictCudaHijack(s) == (~s.cuda) /\ s.cuda_hijack

NoMsg == "conflict"
ConduitMsg == "conduit attribute requires 'network=gasnet'."

\* the declared rules as <<violated, msg>>, in declaration order
ConflictRules(s, bare) ==
    <<  <<ConflictGasnetRoot(s, bare), NoMsg>>,
        <<ConflictConduitNone(s),
          "a conduit must be selected when 'network=gasnet'">>  >>
    \o [i \in 1..(2 * Len(gasnet_conduits)) |->
          <<ConflictConduit(s, gasnet_conduits[(i + 1) \div 2],
                            IF i % 2 = 1 THEN "mpi" ELSE "none"),
            ConduitMsg>>]
    \o <<  <<ConflictGasnetDebug(s, "mpi"), NoMsg>>,
           <<ConflictGasnetDebug(s, "none"), NoMsg>>,
           <<ConflictCudaHijack(s), NoMsg>>  >>

IsViolated(rule) == rule[1]

\* the framework's check of the declared conflicts: the messages of the
\* violated rules, first declared first; the first one is reported
checkAll(s, bare) == SelectSeq(ConflictRules(s, bare), IsViolated)

(***************************************************************************)
(* cmake_args, one operator per top-level statement: each takes the spec   *)
(* and the options list so far and yields the list after the statement.   *)
(***************************************************************************)
InstallErrorMsg == "'gasnet_root' is only valid when 'network=gasnet'."

\* variant: the embed flag is appended whether or not a root is given
NetworkBlockAlwaysEmbeds(s, o) ==
    IF s.network = "gasnet" THEN
        LET o1 == Append(o, "-DLegion_NETWORKS=gasnetex")
            o2 == IF s.gasnet_root # "none"
                  THEN Append(o1, "-DGASNet_ROOT_DIR=" \o s.gasnet_root)
                  ELSE o1
            o3 == Append(o2, "-DLegion_EMBED_GASNet=ON")
            o4 == Append(o3, "-DGASNet_CONDUIT=" \o s.conduit)
            o5 == IF s.gasnet_debug
                  THEN Append(o4, "-DLegion_EMBED_GASNet_CONFIGURE_ARGS=--enable-debug")
                  ELSE o4
        IN  [options |-> o5, raised |-> FALSE]
    ELSE IF s.network = "mpi" THEN
        [options |-> Append(o, "-DLegion_NETWORKS=mpi"),
         raised  |-> s.gasnet_root # "none"]
    ELSE IF s.gasnet_root # "none" THEN
        [options |-> o, raised |-> TRUE]
    ELSE
        [options |-> Append(o, "-DLegion_EMBED_GASNet=OFF"), raised |-> FALSE]

\* variant: the gasnet_root test is missing from the network=none branch
NetworkBlockNoCheckForNone(s, o) ==
    IF s.network = "gasnet" THEN
        LET o1 == Append(o, "-DLegion_NETWORKS=gasnetex")
            o2 == IF s.gasnet_root # "none"
                  THEN Append(o1, "-DGASNet_ROOT_DIR=" \o s.gasnet_root)
                  ELSE Append(o1, "-DLegion_EMBED_GASNet=ON")
            o3 == Append(o2, "-DGASNet_CONDUIT=" \o s.conduit)
            o4 == IF s.gasnet_debug
                  THEN Append(o3, "-DLegion_EMBED_GASNet_CONFIGURE_ARGS=--enable-debug")
                  ELSE o3
        IN  [options |-> o4, raised |-> FALSE]
    ELSE IF s.network = "mpi" THEN
        [options |-> Append(o, "-DLegion_NETWORKS=mpi"),
         raised  |-> s.gasnet_root # "none"]
    ELSE
        [options |-> Append(o, "-DLegion_EMBED_GASNet=OFF"), raised |-> FALSE]

NetworkBlock(s, o) ==
    IF s.network = "gasnet" THEN
        LET o1 == Append(o, "-DLegion_NETWORKS=gasnetex")
            o2 == IF s.gasnet_root # "none"
                  THEN Append(o1, "-DGASNet_ROOT_DIR=" \o s.gasnet_root)
                  ELSE Append(o1, "-DLegion_EMBED_GASNet=ON")
            o3 == Append(o2, "-DGASNet_CONDUIT=" \o s.conduit)
            o4 == IF s.gasnet_debug
                  THEN Append(o3, "-DLegion_EMBED_GASNet_CONFIGURE_ARGS=--enable-debug")
                  ELSE o3
        IN  [options |-> o4, raised |-> FALSE]
    ELSE IF s.network = "mpi" THEN
        [options |-> Append(o, "-DLegion_NETWORKS=mpi"),
         raised  |-> s.gasnet_root # "none"]
    ELSE IF s.gasnet_root # "none" THEN
        [options |-> o, raised |-> TRUE]
    ELSE
        [options |-> Append(o, "-DLegion_EMBED_GASNet=OFF"), raised |-> FALSE]

SharedBlock(s, o) ==
    IF s.shared THEN Append(o, "-DBUILD_SHARED_LIBS=ON")
    ELSE Append(o, "-DBUILD_SHARED_LIBS=OFF")

BoundsChecksBlock(s, o) ==
    IF s.bounds_checks THEN Append(o, "-DLegion_BOUNDS_CHECKS=ON") ELSE o

PrivilegeChecksBlock(s, o) ==
    IF s.privilege_checks THEN Append(o, "-DLegion_PRIVILEGE_CHECKS=ON") ELSE o

EnableTlsBlock(s, o) ==
    IF s.enable_tls THEN Append(o, "-DLegion_ENABLE_TLS=ON") ELSE o

OutputLevelBlock(s, o, bare) ==
    IF bare THEN Append(o, "-DLegion_OUTPUT_LEVEL=" \o Upper(s.output_level))
    ELSE o

SpyBlock(s, o) ==
    IF s.spy THEN Append(o, "-DLegion_SPY=ON") ELSE o

\* variant: the cuda_unsupported_compiler test sits outside the '+cuda' block
CudaBlockUnsupportedOutside(s, o) ==
    LET o4 == IF s.cuda THEN
                  LET o1 == Append(o, "-DLegion_USE_CUDA=ON")
                      o2 == Append(o1, "-DLegion_GPU_REDUCTIONS=ON")
                      o3 == Append(o2, "-DLegion_CUDA_ARCH=" \o s.cuda_arch)
                  IN  IF s.cuda_hijack
                      THEN Append(o3, "-DLegion_HIJACK_CUDART=ON")
                      ELSE Append(o3, "-DLegion_HIJACK_CUDART=OFF")
              ELSE o
    IN  IF s.cuda_unsupported_compiler
        THEN Append(o4, "-DCUDA_NVCC_FLAGS:STRING=--allow-unsupported-compiler")
        ELSE o4

CudaBlock(s, o) ==
    IF s.cuda THEN
        LET o1 == Append(o, "-DLegion_USE_CUDA=ON")
            o2 == Append(o1, "-DLegion_GPU_REDUCTIONS=ON")
            o3 == Append(o2, "-DLegion_CUDA_ARCH=" \o s.cuda_arch)
            o4 == IF s.cuda_hijack
                  THEN Append(o3, "-DLegion_HIJACK_CUDART=ON")
                  ELSE Append(o3, "-DLegion_HIJACK_CUDART=OFF")
        IN  IF s.cuda_unsupported_compiler
            THEN Append(o4, "-DCUDA_NVCC_FLAGS:STRING=--allow-unsupported-compiler")
            ELSE o4
    ELSE o

FortranBlock(s, o) ==
    IF s.fortran THEN Append(o, "-DLegion_USE_Fortran=ON") ELSE o

Hdf5Block(s, o) ==
    IF s.hdf5 THEN Append(o, "-DLegion_USE_HDF5=ON") ELSE o

HwlocBlock(s, o) ==
    IF s.hwloc THEN Append(o, "-DLegion_USE_HWLOC=ON") ELSE o

KokkosBlock(s, o) ==
    IF s.kokkos THEN Append(o, "-DLegion_USE_Kokkos=ON") ELSE o

\* variant: no else branch, as for the default-off features
LibdlBlockNoElse(s, o) ==
    IF s.libdl THEN Append(o, "-DLegion_USE_LIBDL=ON") ELSE o

LibdlBlock(s, o) ==
    IF s.libdl THEN Append(o, "-DLegion_USE_LIBDL=ON")
    ELSE Append(o, "-DLegion_USE_LIBDL=OFF")

OpenmpBlock(s, o) ==
    IF s.openmp THEN Append(o, "-DLegion_USE_OpenMP=ON") ELSE o

PapiBlock(s, o) ==
    IF s.papi THEN Append(o, "-DLegion_USE_PAPI=ON") ELSE o

PythonBlock(s, o) ==
    IF s.python THEN Append(o, "-DLegion_USE_Python=ON") ELSE o

ZlibBlock(s, o) ==
    IF s.zlib THEN Append(o, "-DLegion_USE_ZLIB=ON")
    ELSE Append(o, "-DLegion_USE_ZLIB=OFF")

RedopComplexBlock(s, o) ==
    IF s.redop_complex THEN Append(o, "-DLegion_REDOP_COMPLEX=ON") ELSE o

\* variant: bindings does not force Fortran
BindingsBlockNoFortran(s, o) ==
    IF s.bindings THEN
        o \o << "-DLegion_BUILD_BINDINGS=ON", "-DLegion_REDOP_COMPLEX=ON" >>
    ELSE o

BindingsBlock(s, o) ==
    IF s.bindings THEN
        o \o << "-DLegion_BUILD_BINDINGS=ON",
                "-DLegion_REDOP_COMPLEX=ON",
                "-DLegion_USE_Fortran=ON" >>
    ELSE o

\* variant: the Debug flags are forwarded in options
BuildTypeBlockForwards(build_type, o, cxx) ==
    [options |->
        IF build_type = "Debug"
        THEN Append(o, "-DCMAKE_CXX_FLAGS=-DDEBUG_REALM -DDEBUG_LEGION -ggdb")
        ELSE o,
     cmake_cxx_flags |->
        IF build_type = "Debug"
        THEN cxx \o << "-DDEBUG_REALM", "-DDEBUG_LEGION", "-ggdb" >>
        ELSE cxx]

\* the Debug flags go to cmake_cxx_flags; options is not touched
BuildTypeBlock(build_type, o, cxx) ==
    [options |-> o,
     cmake_cxx_flags |->
        IF build_type = "Debug"
        THEN cxx \o << "-DDEBUG_REALM", "-DDEBUG_LEGION", "-ggdb" >>
        ELSE cxx]

MaxDimsBlock(s, o) ==
    LET maxdims == int(s.max_dims)
    IN  Append(o, "-DLegion_MAX_DIM=" \o FormatD(maxdims))

\* while maxfields & maxfields - 1: maxfields = maxfields & maxfields - 1
RECURSIVE ClearLowBits(_)
ClearLowBits(maxfields) ==
    IF BitAnd(maxfields, maxfields - 1) # 0
    THEN ClearLowBits(BitAnd(maxfields, maxfields - 1))
    ELSE maxfields

\* variant: the final shift is missing, so the value is rounded down
MaxfieldsNoShift(n) ==
    LET m == IF n <= 0 THEN 512 ELSE n
    IN  IF BitAnd(m, m - 1) # 0
        THEN ClearLowBits(m)
        ELSE m

\* the value of maxfields when it is formatted into the flag
Maxfields(n) ==
    LET m == IF n <= 0 THEN 512 ELSE n
    IN  IF BitAnd(m, m - 1) # 0
        THEN ShiftLeft(ClearLowBits(m), 1)
        ELSE m

MaxFieldsBlock(s, o) ==
    LET maxfields == Maxfields(int(s.max_fields))
    IN  Append(o, "-DLegion_MAX_FIELDS=" \o FormatD(maxfields))

NativeBlock(s, o) ==
    IF s.native THEN Append(o, "-DBUILD_MARCH:STRING=native") ELSE o

(***************************************************************************)
(* The specs a behaviour may start from: every spec that differs from the  *)
(* declared defaults in at most MaxNonDefault variants, the specs of the   *)
(* documented scenarios, and the default spec with each max_fields value   *)
(* of a longer range.                                                      *)
(***************************************************************************)
ArchValues == {cuda_arch_list[i] : i \in 1..Len(cuda_arch_list)}

Alternatives ==
    {<<"network", v>> : v \in Networks}
    \cup {<<"gasnet_root", v>> : v \in GasnetRoots}
    \cup {<<"conduit", v>> : v \in Conduits}
    \cup {<<"output_level", v>> : v \in OutputLevels}
    \cup {<<"cuda_arch", v>> : v \in ArchValues}
    \cup {<<"build_type", v>> : v \in BuildTypes}
    \cup {<<"max_dims", ToString(n)>> : n \in 0..MaxDimsAbove}
    \cup {<<"max_fields", ToString(n)>> : n \in {0, 100}}
    \cup {<<b, v>> : b \in BoolVariants, v \in BOOLEAN}

RECURSIVE Near(_)
Near(k) ==
    IF k = 0 THEN {DefaultSpec}
    ELSE LET P == Near(k - 1)
         IN  P \cup {[s EXCEPT ![a[1]] = a[2]] : s \in P, a \in Alternatives}

Scenarios ==
    { [DefaultSpec EXCEPT !.network = "gasnet", !.gasnet_root = "/opt/gasnet",
                          !.conduit = "udp"],
      [DefaultSpec EXCEPT !.network = "gasnet", !.gasnet_root = "/opt/gasnet",
                          !.conduit = "ibv", !.gasnet_debug = TRUE],
      [DefaultSpec EXCEPT !.network = "mpi", !.gasnet_root = "/opt/gasnet",
                          !.kokkos = TRUE],
      [DefaultSpec EXCEPT !.bindings = TRUE, !.fortran = TRUE,
                          !.redop_complex = TRUE],
      [DefaultSpec EXCEPT !.cuda = TRUE, !.cuda_hijack = TRUE,
                          !.cuda_arch = "80",
                          !.cuda_unsupported_compiler = TRUE],
      [DefaultSpec EXCEPT !.cuda = TRUE, !.kokkos = TRUE, !.bindings = TRUE,
                          !.build_type = "Debug"] }

\* the max_fields values tried: a range around zero and the small powers of
\* two, and some values around the default
FieldValues ==
    ((0 - MaxFieldsBelow)..MaxFieldsAbove) \cup {100, 511, 512, 513, 1000, 1024}

FieldSpecs ==
    {[DefaultSpec EXCEPT !.max_fields = ToString(n)] : n \in FieldValues}

Specs == Near(MaxNonDefault) \cup Scenarios \cup FieldSpecs

Init ==
    /\ spec \in Specs
    /\ bare_name_in_spec \in BOOLEAN
    /\ pc = "conflicts"
    /\ options = << >>
    /\ cmake_cxx_flags = << >>
    /\ environ = "unset"
    /\ env_writes = 0
    /\ result = "running"
    /\ message = ""
    /\ returned = << >>
    /\ twin_build_type \in IF spec.build_type = "Debug"
                           THEN BuildTypes \ {"Debug"}
                           ELSE {"Debug"}
    /\ twin_options = << >>
    /\ twin_cxx_flags = << >>
    /\ twin_returned = << >>

\* the same spec with the other build type
twin_spec == [spec EXCEPT !.build_type = twin_build_type]

(***************************************************************************)
(* Actions.                                                                *)
(***************************************************************************)
\* the framework checks the declared conflicts before it calls cmake_args
Conflicts ==
    /\ pc = "conflicts"
    /\ LET violated == checkAll(spec, bare_name_in_spec)
       IN  IF violated # << >>
           THEN /\ result' = "ConflictError"
                /\ message' = Head(violated)[2]
                /\ pc' = "done"
           ELSE /\ pc' = "network"
                /\ UNCHANGED <<result, message>>
    /\ UNCHANGED <<spec, bare_name_in_spec, options, cmake_cxx_flags, environ,
                   env_writes, returned, twin_build_type, twin_options,
                   twin_cxx_flags, twin_returned>>

\* lines 200-223: the raise leaves cmake_args without a return value
Network ==
    /\ pc = "network"
    /\ LET r == NetworkBlock(spec, options)
           t == NetworkBlock(twin_spec, twin_options)
       IN  /\ options' = r.options
           /\ twin_options' = t.options
           /\ IF r.raised
              THEN /\ result' = "InstallError"
                   /\ message' = InstallErrorMsg
                   /\ pc' = "done"
              ELSE /\ pc' = "shared"
                   /\ UNCHANGED <<result, message>>
    /\ UNCHANGED <<spec, bare_name_in_spec, cmake_cxx_flags, environ,
                   env_writes, returned, twin_build_type, twin_cxx_flags,
                   twin_returned>>

\* a statement that only appends to options
Step(here, appended, twin_appended, next) ==
    /\ pc = here
    /\ options' = appended
    /\ twin_options' = twin_appended
    /\ pc' = next
    /\ UNCHANGED <<spec, bare_name_in_spec, cmake_cxx_flags, environ,
                   env_writes, result, message, returned, twin_build_type,
                   twin_cxx_flags, twin_returned>>

Shared ==
    Step("shared", SharedBlock(spec, options),
         SharedBlock(twin_spec, twin_options), "bounds_checks")
BoundsChecks ==
    Step("bounds_checks", BoundsChecksBlock(spec, options),
         BoundsChecksBlock(twin_spec, twin_options), "privilege_checks")
PrivilegeChecks ==
    Step("privilege_checks", PrivilegeChecksBlock(spec, options),
         PrivilegeChecksBlock(twin_spec, twin_options), "enable_tls")
EnableTls ==
    Step("enable_tls", EnableTlsBlock(spec, options),
         EnableTlsBlock(twin_spec, twin_options), "output_level")

OutputLevel ==
    /\ pc = "output_level"
    /\ options' = OutputLevelBlock(spec, options, bare_name_in_spec)
    /\ twin_options' = OutputLevelBlock(twin_spec, twin_options, bare_name_in_spec)
    /\ pc' = "spy"
    /\ UNCHANGED <<spec, bare_name_in_spec, cmake_cxx_flags, environ,
                   env_writes, result, message, returned, twin_build_type,
                   twin_cxx_flags, twin_returned>>

Spy ==
    Step("spy", SpyBlock(spec, options),
         SpyBlock(twin_spec, twin_options), "cuda")
Cuda ==
    Step("cuda", CudaBlock(spec, options),
         CudaBlock(twin_spec, twin_options), "fortran")
Fortran ==
    Step("fortran", FortranBlock(spec, options),
         FortranBlock(twin_spec, twin_options), "hdf5")
Hdf5 ==
    Step("hdf5", Hdf5Block(spec, options),
         Hdf5Block(twin_spec, twin_options), "hwloc")
Hwloc ==
    Step("hwloc", HwlocBlock(spec, options),
         HwlocBlock(twin_spec, twin_options), "kokkos")

\* variant: the environment write is not under the '+kokkos' test
KokkosWritesAlways ==
    /\ pc = "kokkos"
    /\ options' = KokkosBlock(spec, options)
    /\ twin_options' = KokkosBlock(twin_spec, twin_options)
    /\ \E kokkos_cxx \in KokkosCxx :
            /\ environ' = kokkos_cxx
            /\ env_writes' = env_writes + 1
    /\ pc' = "libdl"
    /\ UNCHANGED <<spec, bare_name_in_spec, cmake_cxx_flags, result, message,
                   returned, twin_build_type, twin_cxx_flags, twin_returned>>

\* lines 271-274: the flag and the write of os.environ['KOKKOS_CXX_COMPILER']
Kokkos ==
    /\ pc = "kokkos"
    /\ options' = KokkosBlock(spec, options)
    /\ twin_options' = KokkosBlock(twin_spec, twin_options)
    /\ IF spec.kokkos
       THEN \E kokkos_cxx \in KokkosCxx :
                /\ environ' = kokkos_cxx
                /\ env_writes' = env_writes + 1
       ELSE UNCHANGED <<environ, env_writes>>
    /\ pc' = "libdl"
    /\ UNCHANGED <<spec, bare_name_in_spec, cmake_cxx_flags, result, message,
                   returned, twin_build_type, twin_cxx_flags, twin_returned>>

Libdl ==
    Step("libdl", LibdlBlock(spec, options),
         LibdlBlock(twin_spec, twin_options), "openmp")
Openmp ==
    Step("openmp", OpenmpBlock(spec, options),
         OpenmpBlock(twin_spec, twin_options), "papi")
Papi ==
    Step("papi", PapiBlock(spec, options),
         PapiBlock(twin_spec, twin_options), "python")
Python ==
    Step("python", PythonBlock(spec, options),
         PythonBlock(twin_spec, twin_options), "zlib")
Zlib ==
    Step("zlib", ZlibBlock(spec, options),
         ZlibBlock(twin_spec, twin_options), "redop_complex")
RedopComplex ==
    Step("redop_complex", RedopComplexBlock(spec, options),
         RedopComplexBlock(twin_spec, twin_options), "bindings")
Bindings ==
    Step("bindings", BindingsBlock(spec, options),
         BindingsBlock(twin_spec, twin_options), "build_type")

BuildType ==
    /\ pc = "build_type"
    /\ LET r == BuildTypeBlock(spec.build_type, options, cmake_cxx_flags)
           t == BuildTypeBlock(twin_spec.build_type, twin_options, twin_cxx_flags)
       IN  /\ options' = r.options
           /\ cmake_cxx_flags' = r.cmake_cxx_flags
           /\ twin_options' = t.options
           /\ twin_cxx_flags' = t.cmake_cxx_flags
    /\ pc' = "max_dims"
    /\ UNCHANGED <<spec, bare_name_in_spec, environ, env_writes, result,
                   message, returned, twin_build_type, twin_returned>>

MaxDims ==
    Step("max_dims", MaxDimsBlock(spec, options),
         MaxDimsBlock(twin_spec, twin_options), "max_fields")
MaxFields ==
    Step("max_fields", MaxFieldsBlock(spec, options),
         MaxFieldsBlock(twin_spec, twin_options), "native")
Native ==
    Step("native", NativeBlock(spec, options),
         NativeBlock(twin_spec, twin_options), "return")

\* return options
Return ==
    /\ pc = "return"
    /\ returned' = options
    /\ twin_returned' = twin_options
    /\ result' = "ok"
    /\ pc' = "done"
    /\ UNCHANGED <<spec, bare_name_in_spec, options, cmake_cxx_flags, environ,
                   env_writes, message, twin_build_type, twin_options,
                   twin_cxx_flags>>

Next ==
    \/ Conflicts
    \/ Network
    \/ Shared
    \/ BoundsChecks
    \/ PrivilegeChecks
    \/ EnableTls
    \/ OutputLevel
    \/ Spy
    \/ Cuda
    \/ Fortran
    \/ Hdf5
    \/ Hwloc
    \/ Kokkos
    \/ Libdl
    \/ Openmp
    \/ Papi
    \/ Python
    \/ Zlib
    \/ RedopComplex
    \/ Bindings
    \/ BuildType
    \/ MaxDims
    \/ MaxFields
    \/ Native
    \/ Return

Spec == Init /\ [][Next]_vars


(***************************************************************************)
(* Vocabulary of the properties.                                           *)
(***************************************************************************)
Contains(list, flag) == \E i \in DOMAIN list : list[i] = flag

Count(list, flag) == Cardinality({i \in DOMAIN list : list[i] = flag})

StartsWith(s, prefix) ==
    /\ Len(s) >= Len(prefix)
    /\ SubSeq(s, 1, Len(prefix)) = prefix

\* the positions of the flags that set the CMake variable name
Named(list, name) ==
    {i \in DOMAIN list : StartsWith(list[i], "-D" \o name \o "=")}

Succeeded == pc = "done" /\ result = "ok"
Failed == result \in {"ConflictError", "InstallError"}

RootWithoutGasnet == spec.network \in {"mpi", "none"} /\ spec.gasnet_root # "none"

PowersOfTwo == {2 ^ k : k \in 0..12}

ExpectedMaxFields(n) ==
    IF n <= 0 THEN 512
    ELSE IF n \in PowersOfTwo THEN n
    ELSE CHOOSE p \in PowersOfTwo : 2 * n > p /\ n < p

(***************************************************************************)
(* Properties.                                                             *)
(***************************************************************************)
\* C1: for every integer max_fields value n the returned list has exactly one
\* -DLegion_MAX_FIELDS flag, and its value is 512 if n <= 0, n if n is a power
\* of two, and otherwise the power of two p with p/2 < n < p.
C1_MaxFieldsNormalized ==
    Succeeded =>
        /\ \E n \in FieldValues : spec.max_fields = ToString(n)
        /\ \A n \in FieldValues :
              spec.max_fields = ToString(n) =>
                 /\ Cardinality(Named(returned, "Legion_MAX_FIELDS")) = 1
                 /\ Contains(returned, "-DLegion_MAX_FIELDS="
                                          \o ToString(ExpectedMaxFields(n)))

C1_Witness ==
    /\ Succeeded
    /\ spec.max_fields = "100"
    /\ Contains(returned, "-DLegion_MAX_FIELDS=128")

\* C2: a spec with network=mpi or network=none and a gasnet_root other than
\* 'none' never gets past the network statement, ends in an error, and no
\* list is returned, whatever the other variants are.
C2_RootWithoutGasnetFails ==
    RootWithoutGasnet =>
        /\ result # "ok"
        /\ returned = << >>
        /\ pc \in {"conflicts", "network", "done"}
        /\ pc = "done" => Failed

C2_Witness ==
    /\ pc = "done"
    /\ spec.network = "mpi"
    /\ spec.gasnet_root = "/opt/gasnet"
    /\ result = "InstallError"
    /\ options = << "-DLegion_NETWORKS=mpi" >>
    /\ returned = << >>

\* C3: network=gasnet with conduit=none, and any concrete conduit with
\* network=mpi or network=none, end in a ConflictError; no returned list
\* contains -DGASNet_CONDUIT=none.
C3_ConduitConflicts ==
    /\ (/\ pc = "done"
        /\ \/ spec.network = "gasnet" /\ spec.conduit = "none"
           \/ spec.network \in {"mpi", "none"} /\ spec.conduit # "none")
       => result = "ConflictError" /\ returned = << >>
    /\ ~Contains(returned, "-DGASNet_CONDUIT=none")
    /\ ~Contains(options, "-DGASNet_CONDUIT=none")

C3_Witness ==
    /\ pc = "done"
    /\ spec.network = "gasnet"
    /\ spec.conduit = "none"
    /\ result = "ConflictError"
    /\ message = "a conduit must be selected when 'network=gasnet'"

\* C4: cuda_hijack=true with cuda=false ends in a ConflictError and produces
\* no flags, for every assignment of the other variants.
C4_HijackNeedsCuda ==
    (spec.cuda_hijack /\ ~spec.cuda) =>
        /\ options = << >>
        /\ returned = << >>
        /\ pc = "done" => result = "ConflictError"

C4_Witness ==
    /\ pc = "done"
    /\ spec.cuda_hijack
    /\ ~spec.cuda
    /\ spec.network = "none"
    /\ spec.conduit = "none"
    /\ ~spec.gasnet_debug
    /\ result = "ConflictError"

FeatureFlag ==
    [shared           |-> "BUILD_SHARED_LIBS",
     bounds_checks    |-> "Legion_BOUNDS_CHECKS",
     privilege_checks |-> "Legion_PRIVILEGE_CHECKS",
     enable_tls       |-> "Legion_ENABLE_TLS",
     spy              |-> "Legion_SPY",
     fortran          |-> "Legion_USE_Fortran",
     hdf5             |-> "Legion_USE_HDF5",
     hwloc            |-> "Legion_USE_HWLOC",
     libdl            |-> "Legion_USE_LIBDL",
     openmp           |-> "Legion_USE_OpenMP",
     papi             |-> "Legion_USE_PAPI",
     python           |-> "Legion_USE_Python",
     zlib             |-> "Legion_USE_ZLIB",
     redop_complex    |-> "Legion_REDOP_COMPLEX",
     native           |-> "BUILD_MARCH:STRING"]

Features == DOMAIN FeatureFlag
TwoWayFeatures == {"shared", "libdl", "zlib"}
ForcedByBindings == {"fortran", "redop_complex"}

OnForm(v) == "-D" \o FeatureFlag[v] \o "=" \o (IF v = "native" THEN "native" ELSE "ON")
OffForm(v) == "-D" \o FeatureFlag[v] \o "=OFF"

\* C5 as stated: in every successful translation each feature variant
\* contributes exactly one flag, the ON form when true and the OFF form when
\* false.
C5_Original ==
    Succeeded =>
        \A v \in Features :
            /\ Cardinality(Named(returned, FeatureFlag[v])) = 1
            /\ Contains(returned, IF spec[v] THEN OnForm(v) ELSE OffForm(v))

\* C5 amended: in every successful translation shared, libdl and zlib each
\* contribute exactly one flag, ON when true and OFF when false; each other
\* feature variant contributes its ON flag once when true and nothing when
\* false, and no OFF form of it is ever emitted; bindings=true adds one more
\* ON flag for fortran and for redop_complex.
C5_FeatureFlags ==
    Succeeded =>
        \A v \in Features :
            IF v \in TwoWayFeatures
            THEN /\ Cardinality(Named(returned, FeatureFlag[v])) = 1
                 /\ Contains(returned, IF spec[v] THEN OnForm(v) ELSE OffForm(v))
            ELSE /\ Count(returned, OnForm(v)) =
                        (IF spec[v] THEN 1 ELSE 0)
                        + (IF v \in ForcedByBindings /\ spec.bindings THEN 1 ELSE 0)
                 /\ Cardinality(Named(returned, FeatureFlag[v]))
                        = Count(returned, OnForm(v))

C5_Witness ==
    /\ Succeeded
    /\ ~spec.shared /\ Contains(returned, "-DBUILD_SHARED_LIBS=OFF")
    /\ ~spec.libdl /\ Contains(returned, "-DLegion_USE_LIBDL=OFF")
    /\ ~spec.hdf5 /\ Named(returned, "Legion_USE_HDF5") = {}
    /\ spec.spy /\ Count(returned, "-DLegion_SPY=ON") = 1

UnsupportedCompilerFlag == "-DCUDA_NVCC_FLAGS:STRING=--allow-unsupported-compiler"

\* C7: whenever cuda=true the returned list contains -DLegion_USE_CUDA=ON,
\* -DLegion_GPU_REDUCTIONS=ON, -DLegion_CUDA_ARCH=<cuda_arch> and exactly one
\* -DLegion_HIJACK_CUDART flag, ON iff cuda_hijack; whenever cuda=false none
\* of these flags nor the --allow-unsupported-compiler flag appears.
C7_CudaFlags ==
    Succeeded =>
        IF spec.cuda
        THEN /\ Contains(returned, "-DLegion_USE_CUDA=ON")
             /\ Contains(returned, "-DLegion_GPU_REDUCTIONS=ON")
             /\ Contains(returned, "-DLegion_CUDA_ARCH=" \o spec.cuda_arch)
             /\ Cardinality(Named(returned, "Legion_HIJACK_CUDART")) = 1
             /\ Contains(returned, IF spec.cuda_hijack
                                   THEN "-DLegion_HIJACK_CUDART=ON"
                                   ELSE "-DLegion_HIJACK_CUDART=OFF")
        ELSE /\ Named(returned, "Legion_USE_CUDA") = {}
             /\ Named(returned, "Legion_GPU_REDUCTIONS") = {}
             /\ Named(returned, "Legion_CUDA_ARCH") = {}
             /\ Named(returned, "Legion_HIJACK_CUDART") = {}
             /\ Named(returned, "CUDA_NVCC_FLAGS:STRING") = {}
             /\ ~Contains(returned, UnsupportedCompilerFlag)

C7_Witness ==
    /\ Succeeded
    /\ spec.cuda
    /\ ~spec.cuda_hijack
    /\ spec.cuda_arch = "80"
    /\ Contains(returned, "-DLegion_CUDA_ARCH=80")
    /\ Contains(returned, "-DLegion_HIJACK_CUDART=OFF")

\* C8: for network=gasnet the returned list contains -DLegion_NETWORKS=gasnetex
\* and -DGASNet_CONDUIT=<conduit>, and exactly one of the root-path flag
\* -DGASNet_ROOT_DIR=<gasnet_root> (gasnet_root not 'none') and the embed
\* flag -DLegion_EMBED_GASNet=ON (gasnet_root 'none').
C8_GasnetFlags ==
    (Succeeded /\ spec.network = "gasnet") =>
        /\ Contains(returned, "-DLegion_NETWORKS=gasnetex")
        /\ Contains(returned, "-DGASNet_CONDUIT=" \o spec.conduit)
        /\ IF spec.gasnet_root # "none"
           THEN /\ Contains(returned, "-DGASNet_ROOT_DIR=" \o spec.gasnet_root)
                /\ Cardinality(Named(returned, "GASNet_ROOT_DIR")) = 1
                /\ Named(returned, "Legion_EMBED_GASNet") = {}
           ELSE /\ Contains(returned, "-DLegion_EMBED_GASNet=ON")
                /\ Cardinality(Named(returned, "Legion_EMBED_GASNet")) = 1
                /\ Named(returned, "GASNet_ROOT_DIR") = {}

C8_Witness ==
    /\ Succeeded
    /\ spec.network = "gasnet"
    /\ spec.gasnet_root = "/opt/gasnet"
    /\ spec.conduit = "udp"
    /\ Contains(returned, "-DGASNet_ROOT_DIR=/opt/gasnet")
    /\ Contains(returned, "-DGASNet_CONDUIT=udp")

\* C9: KOKKOS_CXX_COMPILER is written exactly once in a translation with
\* kokkos=true, never with kokkos=false and never in a translation that ends
\* in an error: the write comes after every statement that can fail.
C9_KokkosWrite ==
    /\ env_writes <= 1
    /\ env_writes = 0 <=> environ = "unset"
    /\ env_writes > 0 => spec.kokkos /\ pc \notin {"conflicts", "network", "kokkos"}
    /\ Failed => env_writes = 0
    /\ Succeeded => env_writes = (IF spec.kokkos THEN 1 ELSE 0)

C9_Witness ==
    /\ Succeeded
    /\ spec.kokkos
    /\ env_writes = 1
    /\ environ \in KokkosCxx

\* C10: the returned list does not depend on build_type: the translation of
\* the same spec with Debug exchanged for another build type returns the
\* same ordered list, and -DDEBUG_REALM, -DDEBUG_LEGION and -ggdb, collected
\* in cmake_cxx_flags for Debug, never appear in it.
C10_BuildTypeIgnored ==
    /\ options = twin_options
    /\ returned = twin_returned
    /\ \A f \in {"-DDEBUG_REALM", "-DDEBUG_LEGION", "-ggdb"} :
          ~Contains(returned, f) /\ ~Contains(options, f)
    /\ Succeeded =>
          /\ cmake_cxx_flags = (IF spec.build_type = "Debug"
                                THEN << "-DDEBUG_REALM", "-DDEBUG_LEGION", "-ggdb" >>
                                ELSE << >>)
          /\ twin_cxx_flags = (IF twin_build_type = "Debug"
                               THEN << "-DDEBUG_REALM", "-DDEBUG_LEGION", "-ggdb" >>
                               ELSE << >>)

C10_Witness ==
    /\ Succeeded
    /\ spec.build_type = "Debug"
    /\ twin_build_type = "Release"
    /\ cmake_cxx_flags = << "-DDEBUG_REALM", "-DDEBUG_LEGION", "-ggdb" >>
    /\ twin_cxx_flags = << >>
    /\ returned = twin_returned
====
